---------------------------- MODULE Spec2Model ----------------------------
(***************************************************************************)
(* Model of the data preview of vscode-data-preview:                       *)
(*   src/src/data.preview.ts                  (class DataPreview)          *)
(*   src/src/data.providers/avro.data.provider.ts (AvroContentProvider)    *)
(*                                                                         *)
(* JavaScript strings that the code searches, cuts or rewrites (file       *)
(* names, extensions, paths, Arrow type names) are sequences of one-letter *)
(* strings, so that lastIndexOf, substr, indexOf and replace are computed  *)
(* as the code computes them.                                              *)
(***************************************************************************)
EXTENDS Integers, Sequences, FiniteSets, TLC

(* ------------------------------ bounds --------------------------------- *)

\* webview messages / dialog results handled by one preview
MaxOps == 3
\* Avro decodes started on one preview
MaxDecodes == 2
\* provideTextDocumentContent calls on one provider
MaxProvide == 2
\* requests (webview messages and provider calls together) of an extension
\* session in which a preview and a provider share the disk
MaxCalls == 2
\* distinct field names the records fed to flattenObject draw their keys from
MaxKeys == 2

(* -------------------------- string primitives -------------------------- *)

\* String.prototype.lastIndexOf(ch): 1-based position of the last ch, 0 when
\* there is none (JavaScript's -1).
LastIndexOf(s, ch) ==
  LET hits == {i \in 1..Len(s) : s[i] = ch}
  IN  IF hits = {} THEN 0 ELSE CHOOSE i \in hits : \A j \in hits : j <= i

\* String.prototype.substr(start) with start = lastIndexOf(..): a start of
\* -1 counts from the end of the string and yields its last character.
SubstrFrom(s, idx) ==
  IF Len(s) = 0 THEN <<>>
  ELSE IF idx = 0 THEN SubSeq(s, Len(s), Len(s))
  ELSE SubSeq(s, idx, Len(s))

\* pat occurs in s at 1-based position i
OccursAt(s, pat, i) ==
  /\ i >= 1
  /\ i + Len(pat) - 1 <= Len(s)
  /\ \A k \in 1..Len(pat) : s[i + k - 1] = pat[k]

\* String.prototype.indexOf(pat): 1-based position of the first occurrence,
\* 0 when there is none; the empty string occurs at the start.
IndexOf(s, pat) ==
  LET hits == {i \in 1..(Len(s) + 1) : OccursAt(s, pat, i)}
  IN  IF hits = {} THEN 0 ELSE CHOOSE i \in hits : \A j \in hits : i <= j

\* String.prototype.replace(pat, rep) with a string pattern: the first
\* occurrence only.
Replace(s, pat, rep) ==
  LET i == IndexOf(s, pat)
  IN  IF i = 0 THEN s
      ELSE SubSeq(s, 1, i - 1) \o rep \o SubSeq(s, i + Len(pat), Len(s))

\* path.basename, path.dirname and path.join on absolute posix paths
Basename(p) == SubSeq(p, LastIndexOf(p, "/") + 1, Len(p))
Dirname(p) ==
  LET i == LastIndexOf(p, "/")
  IN  IF i <= 1 THEN <<"/">> ELSE SubSeq(p, 1, i - 1)
PathJoin(dir, name) ==
  IF dir = <<"/">> THEN dir \o name ELSE dir \o <<"/">> \o name

(* ------------------------------ values --------------------------------- *)

\* A JavaScript value of a decoded row: a scalar, null, or an object whose
\* entries keep their insertion order (Object.keys order).
Scalar(n) == [tag |-> "scalar", num |-> n, ent |-> <<>>]
NullVal == [tag |-> "null", num |-> 0, ent |-> <<>>]
Obj(entries) == [tag |-> "object", num |-> 0, ent |-> entries]
Entry(k, v) == [key |-> k, value |-> v]

\* What getFileData returns: null, a string (text files) or an array of rows.
DataNull == [tag |-> "null", text |-> <<>>, rows |-> <<>>]
DataString(t) == [tag |-> "string", text |-> t, rows |-> <<>>]
DataArray(r) == [tag |-> "array", text |-> <<>>, rows |-> r]

\* data.length of a string or an array
DataLength(d) == IF d.tag = "string" THEN Len(d.text) ELSE Len(d.rows)

\* A schema value: undefined, the empty object {}, an Avro type, or the
\* Arrow column map built by getArrowData.
SchemaUndefined == [tag |-> "undefined", fields |-> <<>>]
SchemaEmpty == [tag |-> "object", fields |-> <<>>]
AvroType(fields) == [tag |-> "avro", fields |-> fields]
ArrowSchema(fields) == [tag |-> "arrow", fields |-> fields]
ColumnMap(fields) == [tag |-> "columns", fields |-> fields]
Field(n, t) == [name |-> n, type |-> t]


\* JSON.stringify(jsonData, null, 2): the text of a companion file. The text
\* is kept as the value it encodes and the indent it is printed with.
JSONStringify(v) == [indent |-> 2, of |-> v]

\* the two kinds of jsonData handed to createJsonFile: rows or a schema
JsRows(rows) == [kind |-> "rows", rows |-> rows, schema |-> SchemaUndefined]
JsSchema(s) == [kind |-> "schema", rows |-> <<>>, schema |-> s]

(* --------------------------- file extensions --------------------------- *)

\* the case labels of getFileData's switch
TextExtensions ==
  { <<".", "c", "s", "v">>, <<".", "t", "s", "v">>, <<".", "t", "x", "t">>,
    <<".", "t", "a", "b">>, <<".", "j", "s", "o", "n">> }
BinaryExcelExtensions ==
  { <<".", "x", "l", "s">>, <<".", "x", "l", "s", "b">>,
    <<".", "x", "l", "s", "x">>, <<".", "x", "l", "s", "m">>,
    <<".", "s", "l", "k">>, <<".", "o", "d", "s">>, <<".", "p", "r", "n">> }
TextExcelExtensions ==
  { <<".", "d", "i", "f">>, <<".", "x", "m", "l">>,
    <<".", "h", "t", "m", "l">> }
ArrowExtension == <<".", "a", "r", "r", "o", "w">>
AvroExtension == <<".", "a", "v", "r", "o">>
ParquetExtension == <<".", "p", "a", "r", "q", "u", "e", "t">>

JsonSuffix == <<".", "j", "s", "o", "n">>
SchemaJsonSuffix == <<".", "s", "c", "h", "e", "m", "a">> \o JsonSuffix

(* ----------------------- source files on disk -------------------------- *)

Row(n) == Obj(<<Entry("id", Scalar(n))>>)
\* a row with a nested record whose fields collide with its siblings
NestedRow ==
  Obj(<<Entry("id", Scalar(1)),
        Entry("addr", Obj(<<Entry("id", Scalar(7)), Entry("zip", Scalar(9))>>)),
        Entry("zip", Scalar(3)),
        Entry("note", NullVal)>>)

NoSource ==
  [kind |-> "none", text |-> <<>>, SheetNames |-> <<>>,
   Sheets |-> <<>>, fields |-> <<>>, rows |-> <<>>]
TextSource(t) == [NoSource EXCEPT !.kind = "text", !.text = t]
\* a workbook: sheet names in file order, and the rows of each sheet
Workbook(names, sheets) ==
  [NoSource EXCEPT !.kind = "workbook", !.SheetNames = names, !.Sheets = sheets]
CorruptSource == [NoSource EXCEPT !.kind = "corrupt"]
ArrowSource(fields, rows) ==
  [NoSource EXCEPT !.kind = "arrow", !.fields = fields, !.rows = rows]
AvroSource(fields, rows) ==
  [NoSource EXCEPT !.kind = "avro", !.fields = fields, !.rows = rows]

Dir == <<"/", "d", "/">>

TextSources == { TextSource(<<>>), TextSource(<<"i", "d">>) }
Workbooks ==
  { Workbook(<<"P">>, <<<<Row(1)>>>>),
    Workbook(<<"P", "Q">>, <<<<Row(1)>>, <<Row(2), Row(3)>>>>),
    Workbook(<<"P", "Q">>, <<<<>>, <<Row(2)>>>>) }
IdFields == <<Field("id", <<"I", "n", "t">>)>>
ArrowSources ==
  { ArrowSource(<<Field("id", <<"I", "n", "t">>),
                  Field("ts", <<"T", "s", "<", "m", "s", ">">>)>>,
                <<Row(1)>>) }
AvroSources ==
  { AvroSource(IdFields, <<>>),
    AvroSource(IdFields, <<NestedRow>>),
    AvroSource(IdFields, <<Row(1), Row(2)>>) }

\* the documents a preview is opened on: a path and what is on disk there
\* (kind "none": no file at that path)
Document(name, src) == [fsPath |-> Dir \o name, source |-> src]
Documents ==
     { Document(<<"a", ".", "c", "s", "v">>, s) : s \in TextSources \cup {NoSource} }
\cup { Document(<<"a", ".", "C", "S", "V">>, TextSource(<<"i", "d">>)),
       Document(<<"a", ".", "b", "i", "n">>, TextSource(<<"i", "d">>)),
       Document(<<"a", "b">>, TextSource(<<"i", "d">>)),
       Document(<<"a", ".", "p", "a", "r", "q", "u", "e", "t">>, TextSource(<<"i", "d">>)) }
\cup { Document(<<"a", ".", "x", "l", "s", "x">>, s) : s \in Workbooks \cup {CorruptSource} }
\cup { Document(<<"a", ".", "d", "i", "f">>, Workbook(<<"P", "Q">>, <<<<Row(1)>>, <<Row(2)>>>>)) }
\cup { Document(<<"a", ".", "a", "r", "r", "o", "w">>, s) : s \in ArrowSources }
\cup { Document(<<"a", ".", "a", "v", "r", "o">>, s) : s \in AvroSources \cup {NoSource} }

\* a companion file left by an earlier session
StaleContent == JSONStringify(JsRows(<<Row(0)>>))

\* view configs, table names and config-file data file names offered as input
ViewConfigs == {"c2"}
TableNames == {"", "P", "Q"}


(* ------------------------- state of the program ------------------------ *)

VARIABLES
  \* DataPreview fields (data.preview.ts 71-82)
  _uri,            \* this._uri.fsPath
  _fileName,       \* this._fileName
  _fileExtension,  \* this._fileExtension
  _schema,         \* this._schema
  _config,         \* this._config
  _tableList,      \* this._tableList
  _dataTable,      \* this._dataTable
  decodes,         \* the Avro block decoders getAvroData created, with the
                   \* dataSchema and dataRows their handlers close over
  \* the host and the disk
  source,          \* what is on disk at the document's path
  files,           \* companion files on disk: path -> text
  pendingWrites,   \* writes handed to a write stream or fs.writeFile that
                   \* have not reached the disk yet
  posted,          \* webview.postMessage calls, each with the handler it
                   \* came from
  shown,           \* window.showErrorMessage / showInformationMessage calls
  logged,          \* Logger.logMessage(LogLevel.Error, ..) calls
  lastCall,        \* the handler that ran last: its input and how it ended
  nOps,            \* webview messages handled so far
  \* AvroContentProvider (avro.data.provider.ts)
  viewType,        \* this.viewType
  providerFile,    \* what is on disk at the Avro file the provider decodes
  jsonFileDataMap, \* this.jsonFileDataMap: path -> JsonData.data
  provides,        \* provideTextDocumentContent calls: decoder and promise
  fired,           \* onDidChangeEmitter.fire calls
  nProvides        \* provideTextDocumentContent calls so far

previewVars ==
  <<_uri, _fileName, _fileExtension, _schema, _config, _tableList, _dataTable,
    decodes, source, posted, shown, logged, lastCall, nOps>>
providerVars == <<viewType, providerFile, jsonFileDataMap, provides, fired, nProvides>>
diskVars == <<files, pendingWrites>>
vars == <<previewVars, providerVars, diskVars>>

(* ---------------------- DataPreview: the handlers ---------------------- *)

\* What a handler of the preview reads and writes while it runs: the mutable
\* fields of the preview, the host calls it makes (outbox: the messages it
\* posts) and the writes it starts.
World ==
  [dataTable |-> _dataTable, tableList |-> _tableList, schema |-> _schema,
   config |-> _config, decodes |-> decodes, outbox |-> <<>>,
   shown |-> shown, logged |-> logged, pendingWrites |-> pendingWrites]

\* fs.existsSync of a companion path
ExistsSync(path) == path \in DOMAIN files

\* createJsonFile without the fs.existsSync test
createJsonFile_Overwrite(w, jsonFilePath, jsonData) ==
  [w EXCEPT !.pendingWrites =
     Append(@, [api |-> "createWriteStream", path |-> jsonFilePath,
                content |-> JSONStringify(jsonData)])]

\* createJsonFile(jsonFilePath, jsonData): writes only where no file exists;
\* the write stream reaches the disk after the handler has returned.
createJsonFile(w, jsonFilePath, jsonData) ==
  IF ~ExistsSync(jsonFilePath)
  THEN [w EXCEPT !.pendingWrites =
          Append(@, [api |-> "createWriteStream", path |-> jsonFilePath,
                     content |-> JSONStringify(jsonData)])]
  ELSE w

\* workbook.Sheets[sheetName] through xlsx.utils.sheet_to_json: the rows of
\* the named sheet, no rows for a name the workbook does not have
SheetToJson(workbook, sheetName) ==
  LET at == {i \in 1..Len(workbook.SheetNames) : workbook.SheetNames[i] = sheetName}
  IN  IF at = {} THEN <<>> ELSE workbook.Sheets[CHOOSE i \in at : TRUE]

\* SheetToLoad with the default taken from the wrong end of the sheet list
SheetToLoad_LastSheet(SheetNames, dataTable) ==
  IF dataTable # "" THEN dataTable ELSE SheetNames[Len(SheetNames)]

\* the sheet getExcelData loads: the requested table, else the first sheet
SheetToLoad(SheetNames, dataTable) ==
  IF dataTable # "" THEN dataTable ELSE SheetNames[1]

\* the companion file of a sheet: <file>.json, or <file>-<sheet>.json when a
\* table is requested and the workbook has several sheets
ExcelJsonFilePath(w, sheetName) ==
  IF w.dataTable # "" /\ Len(w.tableList) > 1
  THEN Replace(Replace(_uri, _fileExtension, JsonSuffix), JsonSuffix,
               <<"-", sheetName>> \o JsonSuffix)
  ELSE Replace(_uri, _fileExtension, JsonSuffix)

\* getExcelData once the table list is saved: load the sheet, write its
\* companion file, return its rows
LoadSheet(w, workbook, sheetName) ==
  [w |-> createJsonFile(w, ExcelJsonFilePath(w, sheetName),
                        JsRows(SheetToJson(workbook, sheetName))),
   data |-> DataArray(SheetToJson(workbook, sheetName)),
   sheet |-> sheetName]

\* the table list getExcelData saves: the sheet names of a workbook with
\* more than one sheet
SaveSheetNames(w, SheetNames) ==
  IF Len(SheetNames) > 1 THEN [w EXCEPT !.tableList = SheetNames] ELSE w

\* getExcelData(workbook)
getExcelData(w, workbook) ==
  IF Len(workbook.SheetNames) > 0
  THEN LoadSheet(SaveSheetNames(w, workbook.SheetNames), workbook,
                 SheetToLoad(workbook.SheetNames, w.dataTable))
  ELSE [w |-> w, data |-> DataArray(<<>>), sheet |-> ""]

\* config.dataTypes[fieldType]: the display type of an Arrow type name
DataTypes(fieldType) == <<"dataTypes">> \o fieldType

\* the Arrow type name without its type arguments (indexOf('<'), substring)
StripTypeArguments(fieldType) ==
  IF IndexOf(fieldType, <<"<">>) > 1
  THEN SubSeq(fieldType, 1, IndexOf(fieldType, <<"<">>) - 1)
  ELSE fieldType

\* this._schema of getArrowData: field name -> display type
ArrowColumns(fields) ==
  ColumnMap([i \in 1..Len(fields) |->
               Field(fields[i].name, DataTypes(StripTypeArguments(fields[i].type)))])

\* getArrowData(dataFilePath)
getArrowData(w, table) ==
  [w |-> createJsonFile(
           createJsonFile([w EXCEPT !.schema = ArrowColumns(table.fields)],
                          Replace(_uri, _fileExtension, JsonSuffix),
                          JsRows(table.rows)),
           Replace(_uri, _fileExtension, SchemaJsonSuffix),
           JsSchema(ArrowSchema(table.fields))),
   data |-> DataArray(table.rows), sheet |-> ""]

\* getAvroData(dataFilePath): opens a block decoder, registers the metadata,
\* data and end handlers and returns the still empty dataRows
getAvroData(w, avroFile) ==
  [w |-> [w EXCEPT !.decodes =
             Append(@, [phase |-> "open", schema |-> AvroType(avroFile.fields),
                        stream |-> avroFile.rows, dataSchema |-> SchemaEmpty,
                        dataRows |-> <<>>])],
   data |-> DataArray(<<>>), sheet |-> ""]

\* flatObject[key] = value that leaves an existing key as it is
AssignKey_KeepFirst(flat, key, value) ==
  IF \E i \in 1..Len(flat) : flat[i].key = key
  THEN flat
  ELSE Append(flat, Entry(key, value))

\* flatObject[key] = value: an existing key keeps its place and takes the
\* new value, a new key is added last
AssignKey(flat, key, value) ==
  IF \E i \in 1..Len(flat) : flat[i].key = key
  THEN [i \in 1..Len(flat) |->
          IF flat[i].key = key THEN Entry(key, value) ELSE flat[i]]
  ELSE Append(flat, Entry(key, value))

\* Object.assign(flatObject, source): every entry of source, in its order
RECURSIVE ObjectAssign(_, _)
ObjectAssign(flat, entries) ==
  IF entries = <<>> THEN flat
  ELSE ObjectAssign(AssignKey(flat, Head(entries).key, Head(entries).value),
                    Tail(entries))

\* flattenObject(obj): the entries of the flat object
RECURSIVE FlattenEntries(_, _)
FlattenEntries(flat, entries) ==
  IF entries = <<>> THEN flat
  ELSE IF Head(entries).value.tag = "object"
       THEN FlattenEntries(
              ObjectAssign(flat, FlattenEntries(<<>>, Head(entries).value.ent)),
              Tail(entries))
       ELSE FlattenEntries(AssignKey(flat, Head(entries).key, Head(entries).value),
                           Tail(entries))
flattenObject(obj) == Obj(FlattenEntries(<<>>, obj.ent))

\* the message loadData posts to the webview
RefreshMessage(w, data) ==
  [command |-> "refresh", error |-> "", fileName |-> _fileName, uri |-> _uri,
   config |-> w.config, schema |-> w.schema, tableList |-> w.tableList,
   table |-> w.dataTable, data |-> data]
\* webview.postMessage({error: error})
ErrorMessage(w, error) ==
  [command |-> "", error |-> error, fileName |-> <<>>, uri |-> <<>>,
   config |-> "", schema |-> SchemaUndefined, tableList |-> <<>>,
   table |-> "", data |-> DataNull]

\* loadData that lets an empty array through (length < 0 for length <= 0)
loadData_PostsEmpty(w, data) ==
  IF data.tag = "undefined" THEN [w |-> w, threw |-> FALSE]
  ELSE IF data.tag = "null" THEN [w |-> w, threw |-> TRUE]
  ELSE [w |-> [w EXCEPT !.outbox = Append(@, RefreshMessage(w, data))],
        threw |-> FALSE]

\* loadData(data): threw when reading data.length raised a TypeError
loadData(w, data) ==
  IF data.tag = "undefined" THEN [w |-> w, threw |-> FALSE]
  ELSE IF data.tag = "null" THEN [w |-> w, threw |-> TRUE]
  ELSE IF DataLength(data) <= 0 THEN [w |-> w, threw |-> FALSE]
  ELSE [w |-> [w EXCEPT !.outbox = Append(@, RefreshMessage(w, data))],
        threw |-> FALSE]

\* fs.existsSync(dataFilePath) of the source data file
SourceExists(dataFilePath) == dataFilePath = _uri /\ source.kind # "none"

\* the decoder getFileData's switch selects for an extension
DecoderOf(fileExtension) ==
  IF fileExtension \in TextExtensions THEN "text"
  ELSE IF fileExtension \in BinaryExcelExtensions THEN "binaryExcel"
  ELSE IF fileExtension \in TextExcelExtensions THEN "textExcel"
  ELSE IF fileExtension = ArrowExtension THEN "arrow"
  ELSE IF fileExtension = AvroExtension THEN "avro"
  ELSE IF fileExtension = ParquetExtension THEN "parquet"
  ELSE "none"

\* what a decoder of getFileData hands back
Decoded(r, decoder) ==
  [w |-> r.w, data |-> r.data, threw |-> FALSE, decoder |-> decoder,
   sheet |-> r.sheet]
NoData(w, decoder, threw) ==
  [w |-> w, data |-> DataNull, threw |-> threw, decoder |-> decoder,
   sheet |-> ""]

\* the switch of getFileData. threw: xlsx.readFile or Table.from raised on a
\* file they cannot parse.
ReadFileData(w, decoder) ==
  IF decoder = "text"
  THEN [NoData(w, decoder, FALSE) EXCEPT !.data = DataString(source.text)]
  ELSE IF decoder \in {"binaryExcel", "textExcel"}
  THEN IF source.kind # "workbook" THEN NoData(w, decoder, TRUE)
       ELSE Decoded(getExcelData(w, source), decoder)
  ELSE IF decoder = "arrow"
  THEN IF source.kind # "arrow" THEN NoData(w, decoder, TRUE)
       ELSE Decoded(getArrowData(w, source), decoder)
  ELSE IF decoder = "avro"
  THEN Decoded(getAvroData(w, source), decoder)
  ELSE IF decoder = "parquet"
  THEN NoData([w EXCEPT !.shown = Append(@, "coming soon")], decoder, FALSE)
  ELSE NoData(w, decoder, FALSE)

\* getFileData(filePath)
getFileData(w, filePath) ==
  IF ~SourceExists(PathJoin(Dirname(_uri), filePath))
  THEN NoData([w EXCEPT !.logged = Append(@, "doesn't exist"),
                        !.shown = Append(@, "doesn't exist")], "none", FALSE)
  ELSE ReadFileData(w, DecoderOf(_fileExtension))

\* SaveTable that forgets the saved table on a request without one
SaveTable_Forget(current, dataTable) == dataTable

\* the table refresh keeps in this._dataTable for a requested table
SaveTable(current, dataTable) ==
  IF dataTable # "" THEN dataTable ELSE current

\* the try/catch of refresh around getFileData: a caught error is logged and
\* posted, and data stays []
CatchError(got) ==
  IF got.threw
  THEN [got EXCEPT !.data = DataArray(<<>>),
                   !.w = [got.w EXCEPT
                            !.logged = Append(@, "refresh"),
                            !.outbox = Append(@, ErrorMessage(got.w, "refresh"))]]
  ELSE got

\* the end of refresh: this.loadData(data), outside the try block
LoadResult(got, loaded) ==
  [w |-> loaded.w, threw |-> loaded.threw, data |-> got.data,
   decoder |-> got.decoder, sheet |-> got.sheet]
LoadGot(got) == LoadResult(got, loadData(got.w, got.data))

\* refresh(dataTable = ''). threw: an exception left refresh.
refresh(w, dataTable) ==
  LoadGot(CatchError(
    getFileData([w EXCEPT !.dataTable = SaveTable(@, dataTable)], _fileName)))

\* the matching branch of loadConfig: save the config and the table, refresh
ConfigLoaded(r) ==
  [w |-> r.w, rejected |-> r.threw, accepted |-> TRUE, data |-> r.data,
   decoder |-> r.decoder, sheet |-> r.sheet]
ConfigTable(viewConfig) ==
  IF viewConfig.dataTable.defined THEN viewConfig.dataTable.value ELSE ""

\* loadConfig() after the open dialog has answered. picked: the user chose a
\* config file (a cancelled dialog answers undefined, and reading its length
\* rejects the promise). viewConfig: the parsed content of the chosen file.
loadConfig(w, picked, viewConfig) ==
  IF ~picked
  THEN [w |-> w, rejected |-> TRUE, accepted |-> FALSE, data |-> DataNull,
        decoder |-> "none", sheet |-> ""]
  ELSE IF IndexOf(_uri, viewConfig.dataFileName) >= 1
  THEN ConfigLoaded(refresh([w EXCEPT !.config = viewConfig.config,
                                      !.dataTable = ConfigTable(viewConfig)],
                            ConfigTable(viewConfig)))
  ELSE [w |-> [w EXCEPT !.shown = Append(@, "doesn't match")],
        rejected |-> FALSE, accepted |-> FALSE, data |-> DataNull,
        decoder |-> "none", sheet |-> ""]

(* ------------------------ DataPreview: the steps ----------------------- *)

\* the messages of a handler's outbox, each marked with the handler that
\* posted it (decode 0: a handler of no Avro decode)
Stamp(outbox, handler, decode) ==
  [i \in 1..Len(outbox) |->
     [handler |-> handler, decode |-> decode, msg |-> outbox[i]]]

\* the state a handler leaves behind
Commit(w, handler, decode) ==
  /\ _dataTable' = w.dataTable
  /\ _tableList' = w.tableList
  /\ _schema' = w.schema
  /\ _config' = w.config
  /\ decodes' = w.decodes
  /\ shown' = w.shown
  /\ logged' = w.logged
  /\ pendingWrites' = w.pendingWrites
  /\ posted' = posted \o Stamp(w.outbox, handler, decode)

NoCall ==
  [op |-> "none", table |-> "", picked |-> FALSE, dataFileName |-> <<>>,
   accepted |-> FALSE, refreshed |-> FALSE, threw |-> FALSE,
   data |-> DataNull, decoder |-> "none", sheet |-> ""]

\* the constructor's file name and extension
FileNameOf(fsPath) == Basename(fsPath)
FileExtensionOf(fileName) == SubstrFrom(fileName, LastIndexOf(fileName, "."))

\* the companion .json path of a document
JsonPathOf(fsPath) ==
  Replace(fsPath, FileExtensionOf(FileNameOf(fsPath)), JsonSuffix)

\* the disk a preview may find: no companion file, or a stale .json one
InitialDisks(doc) ==
  {[p \in {} |-> StaleContent]}
  \cup (IF doc.source.kind \in {"workbook", "arrow", "avro"}
        THEN {JsonPathOf(doc.fsPath) :> StaleContent} ELSE {})

\* new DataPreview(viewType, extensionPath, uri, viewConfig, ..)
InitPreview(doc) ==
  /\ _uri = doc.fsPath
  /\ _fileName = FileNameOf(doc.fsPath)
  /\ _fileExtension = FileExtensionOf(FileNameOf(doc.fsPath))
  /\ _schema = SchemaUndefined
  /\ _config = "c1"
  /\ _tableList = <<>>
  /\ _dataTable = ""
  /\ decodes = <<>>
  /\ source = doc.source
  /\ posted = <<>>
  /\ shown = <<>>
  /\ logged = <<>>
  /\ lastCall = NoCall
  /\ nOps = 0

\* new AvroContentProvider(viewType)
InitProvider(type, file) ==
  /\ viewType = type
  /\ providerFile = file
  /\ jsonFileDataMap = [p \in {} |-> <<>>]
  /\ provides = <<>>
  /\ fired = 0
  /\ nProvides = 0

Init ==
  \E doc \in Documents :
    /\ InitPreview(doc)
    /\ files \in InitialDisks(doc)
    /\ pendingWrites = <<>>
    /\ InitProvider("avro.data.json", AvroSource(IdFields, <<Row(1)>>))

\* case 'refresh': this.refresh(message.table)
RefreshCall(table, r) ==
  [NoCall EXCEPT !.op = "refresh", !.table = table, !.refreshed = TRUE,
                 !.threw = r.threw, !.data = r.data, !.decoder = r.decoder,
                 !.sheet = r.sheet]
RefreshDone(table, r) ==
  /\ Commit(r.w, "refresh", 0)
  /\ lastCall' = RefreshCall(table, r)
ReceiveRefresh(table) ==
  /\ nOps < MaxOps
  /\ Len(decodes) < MaxDecodes
  /\ RefreshDone(table, refresh(World, table))
  /\ nOps' = nOps + 1
  /\ UNCHANGED <<_uri, _fileName, _fileExtension, source, files, providerVars>>

\* case 'config': this._config = message.config
ReceiveConfig(config) ==
  /\ nOps < MaxOps
  /\ _config' = config
  /\ lastCall' = [NoCall EXCEPT !.op = "config"]
  /\ nOps' = nOps + 1
  /\ UNCHANGED <<_uri, _fileName, _fileExtension, _schema, _tableList,
                 _dataTable, decodes, source, posted, shown, logged,
                 diskVars, providerVars>>

\* case 'loadConfig': this.loadConfig(), resumed by the dialog's answer
LoadConfigCall(picked, viewConfig, r) ==
  [NoCall EXCEPT !.op = "loadConfig", !.picked = picked,
                 !.dataFileName = viewConfig.dataFileName,
                 !.table = ConfigTable(viewConfig),
                 !.accepted = r.accepted, !.refreshed = r.accepted,
                 !.threw = r.rejected, !.data = r.data,
                 !.decoder = r.decoder, !.sheet = r.sheet]
LoadConfigDone(picked, viewConfig, r) ==
  /\ Commit(r.w, "loadConfig", 0)
  /\ lastCall' = LoadConfigCall(picked, viewConfig, r)
ReceiveLoadConfig(picked, viewConfig) ==
  /\ nOps < MaxOps
  /\ Len(decodes) < MaxDecodes
  /\ LoadConfigDone(picked, viewConfig, loadConfig(World, picked, viewConfig))
  /\ nOps' = nOps + 1
  /\ UNCHANGED <<_uri, _fileName, _fileExtension, source, files, providerVars>>

\* dataBlockDecoder.on('metadata', type => dataSchema = type)
OnMetadata(d) ==
  /\ decodes[d].phase = "open"
  /\ decodes' = [decodes EXCEPT ![d].phase = "decoding",
                                ![d].dataSchema = decodes[d].schema]
  /\ UNCHANGED <<_uri, _fileName, _fileExtension, _schema, _config, _tableList,
                 _dataTable, source, posted, shown, logged, lastCall, nOps,
                 diskVars, providerVars>>

\* dataRows.push(data) on one array that all getAvroData calls share
PushRow_Shared(ds, d, data) ==
  [i \in DOMAIN ds |-> [ds[i] EXCEPT !.dataRows = Append(@, data)]]
\* dataRows.push(data): dataRows is the array of the getAvroData call that
\* registered the handler
PushRow(ds, d, data) == [ds EXCEPT ![d].dataRows = Append(@, data)]

\* dataBlockDecoder.on('data', data => dataRows.push(data))
OnData(d) ==
  /\ decodes[d].phase = "decoding"
  /\ decodes[d].stream # <<>>
  /\ decodes' = [PushRow(decodes, d, Head(decodes[d].stream))
                   EXCEPT ![d].stream = Tail(@)]
  /\ UNCHANGED <<_uri, _fileName, _fileExtension, _schema, _config, _tableList,
                 _dataTable, source, posted, shown, logged, lastCall, nOps,
                 diskVars, providerVars>>

\* the rows the end handler flattens: dataRows.map(flattenObject)
FlattenRows(dataRows) == [i \in 1..Len(dataRows) |-> flattenObject(dataRows[i])]

\* the end handler of getAvroData's decoder: write the companion files of
\* the rows and the schema, flatten the rows, load them
Flattened(w, d, flat) ==
  loadData([w EXCEPT !.decodes[d].dataRows = flat,
                     !.decodes[d].phase = "ended"], DataArray(flat)).w
\* an end handler that flattens the rows before it writes them
onEnd_FlattenFirst(w, d) ==
  Flattened(
    createJsonFile(
      createJsonFile(w, Replace(_uri, _fileExtension, JsonSuffix),
                     JsRows(FlattenRows(w.decodes[d].dataRows))),
      Replace(_uri, _fileExtension, SchemaJsonSuffix),
      JsSchema(w.decodes[d].dataSchema)),
    d, FlattenRows(w.decodes[d].dataRows))
onEnd(w, d) ==
  Flattened(
    createJsonFile(
      createJsonFile(w, Replace(_uri, _fileExtension, JsonSuffix),
                     JsRows(w.decodes[d].dataRows)),
      Replace(_uri, _fileExtension, SchemaJsonSuffix),
      JsSchema(w.decodes[d].dataSchema)),
    d, FlattenRows(w.decodes[d].dataRows))

\* dataBlockDecoder.on('end', ..)
OnEnd(d) ==
  /\ decodes[d].phase = "decoding"
  /\ decodes[d].stream = <<>>
  /\ Commit(onEnd(World, d), "end", d)
  /\ UNCHANGED <<_uri, _fileName, _fileExtension, source, lastCall, nOps,
                 files, providerVars>>

\* a started write reaches the disk: the file is created or replaced
WriteCompletes(i) ==
  /\ files' = [p \in DOMAIN files \cup {pendingWrites[i].path} |->
                 IF p = pendingWrites[i].path
                 THEN pendingWrites[i].content ELSE files[p]]
  /\ pendingWrites' = [j \in 1..(Len(pendingWrites) - 1) |->
                         IF j < i THEN pendingWrites[j] ELSE pendingWrites[j + 1]]
  /\ UNCHANGED <<previewVars, providerVars>>

\* the config files a user may pick
ConfigFileNames ==
  { <<"a">>, <<>>, <<"b", ".", "c", "s", "v">> }
ConfigTables == { [defined |-> FALSE, value |-> ""], [defined |-> TRUE, value |-> "Q"] }
NoConfigFile == [dataFileName |-> <<>>, config |-> "", dataTable |-> [defined |-> FALSE, value |-> ""]]
ViewConfigFiles ==
  [dataFileName : ConfigFileNames \cup {_fileName}, config : {"c3"},
   dataTable : ConfigTables]

Next ==
  \/ \E table \in TableNames : ReceiveRefresh(table)
  \/ \E config \in ViewConfigs : ReceiveConfig(config)
  \/ ReceiveLoadConfig(FALSE, NoConfigFile)
  \/ \E viewConfig \in ViewConfigFiles : ReceiveLoadConfig(TRUE, viewConfig)
  \/ \E d \in DOMAIN decodes : OnMetadata(d)
  \/ \E d \in DOMAIN decodes : OnData(d)
  \/ \E d \in DOMAIN decodes : OnEnd(d)
  \/ \E i \in DOMAIN pendingWrites : WriteCompletes(i)

Spec == Init /\ [][Next]_vars


(* ------------------------- AvroContentProvider ------------------------- *)

\* new JsonData(): data = ''
EmptyText == [indent |-> 0, of |-> JsRows(<<>>)]

\* the uris the editor asks the provider for
AvroJsonUri == [scheme |-> <<"s">>, path |-> Dir \o <<"a", ".", "a", "v", "r", "o">> \o JsonSuffix]
AvroUri == [scheme |-> <<"s">>, path |-> Dir \o <<"a", ".", "a", "v", "r", "o">>]
ProviderUris == {AvroJsonUri, AvroUri}

\* uri.toString() of a uri without authority
UriToString(uri) == uri.scheme \o <<":">> \o uri.path

\* uri.path.replace(RegExp('\.json$'), ''): in the string literal the
\* backslash is lost, so the pattern is any one character, then json, at
\* the end of the path
StripJsonSuffix(path) ==
  IF Len(path) >= 5 /\ SubSeq(path, Len(path) - 3, Len(path)) = <<"j", "s", "o", "n">>
  THEN SubSeq(path, 1, Len(path) - 5)
  ELSE path

\* the companion files of the provider's metadata and end handlers
AvroSchemaJsonPath(dataFilePath) ==
  Replace(dataFilePath, AvroExtension, AvroExtension \o SchemaJsonSuffix)
AvroJsonPath(dataFilePath) ==
  Replace(dataFilePath, AvroExtension, AvroExtension \o JsonSuffix)

\* resolve(value) of the promise of a call: the first resolve stands
Resolve(call, value) ==
  IF call.resolved.done THEN call
  ELSE [call EXCEPT !.resolved = [done |-> TRUE, value |-> value]]

\* fs.writeFile(path, data, callback): replaces the file when it completes
WriteFile(path, data) ==
  pendingWrites' = Append(pendingWrites,
                          [api |-> "writeFile", path |-> path, content |-> data])

\* the promise of a new call: resolved with the cached text when the map
\* has the path
CachedOrPending(jsonFilePath) ==
  IF jsonFilePath \in DOMAIN jsonFileDataMap
  THEN [done |-> TRUE, value |-> provides[jsonFileDataMap[jsonFilePath]].data]
  ELSE [done |-> FALSE, value |-> EmptyText]

\* the call provideTextDocumentContent(uri) sets up: a new JsonData and a
\* new decoder, whatever the map holds
NewCall(uri, jsonFilePath) ==
  [uri |-> uri, jsonFilePath |-> jsonFilePath, phase |-> "open",
   schema |-> AvroType(providerFile.fields), stream |-> providerFile.rows,
   dataSchema |-> SchemaEmpty, dataRows |-> <<>>, data |-> EmptyText,
   resolved |-> CachedOrPending(jsonFilePath)]

\* provideTextDocumentContent(uri). jsonFileDataMap holds, for a path, the
\* JsonData object of the call that set it (the call's index in provides).
ProvideTextDocumentContent(uri) ==
  /\ nProvides < MaxProvide
  /\ provides' = Append(provides, NewCall(uri, StripJsonSuffix(uri.path)))
  /\ jsonFileDataMap' =
       [p \in DOMAIN jsonFileDataMap \cup {StripJsonSuffix(uri.path)} |->
          IF p = StripJsonSuffix(uri.path) THEN Len(provides) + 1
          ELSE jsonFileDataMap[p]]
  /\ nProvides' = nProvides + 1
  /\ UNCHANGED <<viewType, providerFile, fired, previewVars, diskVars>>

\* dataBlockDecoder.on('metadata', ..) of call c
ProviderMetadata(c) ==
  /\ provides[c].phase = "open"
  /\ provides' =
       [provides EXCEPT ![c] =
          Resolve([@ EXCEPT !.phase = "decoding", !.dataSchema = provides[c].schema,
                            !.data = JSONStringify(JsSchema(provides[c].schema))],
                  JSONStringify(JsSchema(provides[c].schema)))]
  /\ fired' = fired + 1
  /\ WriteFile(AvroSchemaJsonPath(UriToString(provides[c].uri)),
               JSONStringify(JsSchema(provides[c].schema)))
  /\ UNCHANGED <<viewType, providerFile, jsonFileDataMap, nProvides, previewVars, files>>

\* dataBlockDecoder.on('data', ..) of call c
ProviderData(c) ==
  /\ viewType = "avro.data.json"
  /\ provides[c].phase = "decoding"
  /\ provides[c].stream # <<>>
  /\ provides' =
       [provides EXCEPT
          ![c].dataRows = Append(@, Head(provides[c].stream)),
          ![c].stream = Tail(@),
          ![c].data = JSONStringify(JsRows(
                        Append(provides[c].dataRows, Head(provides[c].stream))))]
  /\ fired' = fired + 1
  /\ UNCHANGED <<viewType, providerFile, jsonFileDataMap, nProvides, previewVars, diskVars>>

\* dataBlockDecoder.on('end', ..) of call c
ProviderEnd(c) ==
  /\ viewType = "avro.data.json"
  /\ provides[c].phase = "decoding"
  /\ provides[c].stream = <<>>
  /\ provides' =
       [provides EXCEPT ![c] =
          Resolve([@ EXCEPT !.phase = "ended",
                            !.data = JSONStringify(JsRows(provides[c].dataRows))],
                  JSONStringify(JsRows(provides[c].dataRows)))]
  /\ WriteFile(AvroJsonPath(UriToString(provides[c].uri)),
               JSONStringify(JsRows(provides[c].dataRows)))
  /\ UNCHANGED <<viewType, providerFile, jsonFileDataMap, fired, nProvides, previewVars, files>>

\* the disk a provider may find: no companion file, or a stale one where
\* the rows or the schema of a uri go
ProviderDisks ==
  {[p \in {} |-> StaleContent]}
  \cup {AvroJsonPath(UriToString(AvroJsonUri)) :> StaleContent}
  \cup {AvroSchemaJsonPath(UriToString(AvroJsonUri)) :> StaleContent}

ProviderInit ==
  /\ InitPreview(Document(<<"a", ".", "a", "v", "r", "o">>, NoSource))
  /\ \E type \in {"avro.data.json", "avro.data.schema.json"}, file \in AvroSources :
       InitProvider(type, file)
  /\ files \in ProviderDisks
  /\ pendingWrites = <<>>

ProviderNext ==
  \/ \E uri \in ProviderUris : ProvideTextDocumentContent(uri)
  \/ \E c \in DOMAIN provides : ProviderMetadata(c)
  \/ \E c \in DOMAIN provides : ProviderData(c)
  \/ \E c \in DOMAIN provides : ProviderEnd(c)
  \/ \E i \in DOMAIN pendingWrites : WriteCompletes(i)

ProviderSpec == ProviderInit /\ [][ProviderNext]_vars

(* ----------------- a preview and a provider on one disk ----------------- *)

\* the documents whose decoders write companion files
CompanionDocuments ==
  { Document(<<"a", ".", "x", "l", "s", "x">>,
             Workbook(<<"P", "Q">>, <<<<Row(1)>>, <<Row(2), Row(3)>>>>)),
    Document(<<"a", ".", "a", "r", "r", "o", "w">>,
             ArrowSource(IdFields, <<Row(1)>>)),
    Document(<<"a", ".", "a", "v", "r", "o">>,
             AvroSource(IdFields, <<NestedRow>>)) }

ExtensionInit ==
  /\ \E doc \in CompanionDocuments :
       /\ InitPreview(doc)
       /\ files \in InitialDisks(doc) \cup ProviderDisks
  /\ InitProvider("avro.data.json", AvroSource(IdFields, <<Row(1)>>))
  /\ pendingWrites = <<>>

ExtensionNext ==
  \/ /\ nOps + nProvides < MaxCalls
     /\ \E table \in TableNames : ReceiveRefresh(table)
  \/ /\ nOps + nProvides < MaxCalls
     /\ \E uri \in ProviderUris : ProvideTextDocumentContent(uri)
  \/ \E d \in DOMAIN decodes : OnMetadata(d)
  \/ \E d \in DOMAIN decodes : OnData(d)
  \/ \E d \in DOMAIN decodes : OnEnd(d)
  \/ \E c \in DOMAIN provides : ProviderMetadata(c)
  \/ \E c \in DOMAIN provides : ProviderData(c)
  \/ \E c \in DOMAIN provides : ProviderEnd(c)
  \/ \E i \in DOMAIN pendingWrites : WriteCompletes(i)

ExtensionSpec == ExtensionInit /\ [][ExtensionNext]_vars

(* ------------------ flattenObject on bounded records ------------------- *)

\* the field names of the records
FieldNames == {<<"a", "b", "c", "d">>[i] : i \in 1..MaxKeys}

\* the objects of no, one or two fields (distinct keys, in insertion order)
\* whose values are drawn from values
RecordsOver(values) ==
       { Obj(<<>>) }
  \cup { Obj(<<Entry(k, v)>>) : k \in FieldNames, v \in values }
  \cup { Obj(<<Entry(k[1], v[1]), Entry(k[2], v[2])>>) :
           k \in {kk \in FieldNames \X FieldNames : kk[1] # kk[2]},
           v \in values \X values }

\* rows of an Avro file: records of scalars and null, with nested records
\* of other scalars and null as field values
InnerRecords == RecordsOver({Scalar(2), Scalar(3), NullVal})
\* a record nested three deep whose leaves all have the same name
DeepRecord ==
  Obj(<<Entry("a", Scalar(1)),
        Entry("b", Obj(<<Entry("a", Scalar(2)),
                         Entry("b", Obj(<<Entry("a", Scalar(3))>>))>>))>>)
Records == RecordsOver({Scalar(1), NullVal} \cup InnerRecords) \cup {DeepRecord}

\* a preview opened on an Avro file of one record
FlattenInit ==
  /\ \E r \in Records :
       InitPreview(Document(<<"a", ".", "a", "v", "r", "o">>,
                            AvroSource(IdFields, <<r>>)))
  /\ files = [p \in {} |-> StaleContent]
  /\ pendingWrites = <<>>
  /\ InitProvider("avro.data.json", AvroSource(IdFields, <<Row(1)>>))

\* one decode of the file
FlattenNext ==
  \/ decodes = <<>> /\ ReceiveRefresh("")
  \/ \E d \in DOMAIN decodes : OnMetadata(d)
  \/ \E d \in DOMAIN decodes : OnData(d)
  \/ \E d \in DOMAIN decodes : OnEnd(d)
  \/ \E i \in DOMAIN pendingWrites : WriteCompletes(i)

FlattenSpec == FlattenInit /\ [][FlattenNext]_vars

(* ----------------- companion writes that can fail --------------------- *)

\* what can go wrong in one createJsonFile call: nothing, JSON.stringify
\* throws (it is called before the try block), or fs.createWriteStream /
\* write / end throws inside the try block
Faults == {"none", "stringify", "stream"}
FailedToSave == "Failed to save file"

\* createJsonFile under a fault; threw: the exception left createJsonFile
createJsonFileWith(w, jsonFilePath, jsonData, fault) ==
  IF ExistsSync(jsonFilePath) THEN [w |-> w, threw |-> FALSE]
  ELSE IF fault = "stringify" THEN [w |-> w, threw |-> TRUE]
  ELSE IF fault = "stream"
  THEN [w |-> [w EXCEPT !.logged = Append(@, FailedToSave),
                        !.shown = Append(@, FailedToSave)],
        threw |-> FALSE]
  ELSE [w |-> createJsonFile(w, jsonFilePath, jsonData), threw |-> FALSE]

\* the end handler left by an exception: nothing after the throw has run
Aborted(w, d) == [w EXCEPT !.decodes[d].phase = "aborted"]
\* the end handler after its second createJsonFile call
AfterSchemaFile(r, d) ==
  IF r.threw THEN Aborted(r.w, d)
  ELSE Flattened(r.w, d, FlattenRows(r.w.decodes[d].dataRows))
\* the end handler after its first createJsonFile call
AfterRowsFile(r, d, fault) ==
  IF r.threw THEN Aborted(r.w, d)
  ELSE AfterSchemaFile(
         createJsonFileWith(r.w, Replace(_uri, _fileExtension, SchemaJsonSuffix),
                            JsSchema(r.w.decodes[d].dataSchema), fault), d)
\* the end handler of getAvroData's decoder under the faults of its two
\* createJsonFile calls
onEndWith(w, d, rowsFault, schemaFault) ==
  AfterRowsFile(
    createJsonFileWith(w, Replace(_uri, _fileExtension, JsonSuffix),
                       JsRows(w.decodes[d].dataRows), rowsFault),
    d, schemaFault)

\* dataBlockDecoder.on('end', ..) when companion writes can fail
OnEndWith(d, rowsFault, schemaFault) ==
  /\ decodes[d].phase = "decoding"
  /\ decodes[d].stream = <<>>
  /\ Commit(onEndWith(World, d, rowsFault, schemaFault), "end", d)
  /\ UNCHANGED <<_uri, _fileName, _fileExtension, source, lastCall, nOps,
                 files, providerVars>>

\* a preview opened on an Avro file, with or without a .json companion
FaultInit ==
  /\ \E doc \in {Document(<<"a", ".", "a", "v", "r", "o">>, src) : src \in AvroSources} :
       /\ InitPreview(doc)
       /\ files \in InitialDisks(doc)
  /\ pendingWrites = <<>>
  /\ InitProvider("avro.data.json", AvroSource(IdFields, <<Row(1)>>))

FaultNext ==
  \/ ReceiveRefresh("")
  \/ \E d \in DOMAIN decodes : OnMetadata(d)
  \/ \E d \in DOMAIN decodes : OnData(d)
  \/ \E d \in DOMAIN decodes, rowsFault \in Faults, schemaFault \in Faults :
       OnEndWith(d, rowsFault, schemaFault)
  \/ \E i \in DOMAIN pendingWrites : WriteCompletes(i)

FaultSpec == FaultInit /\ [][FaultNext]_vars

(* ------------------------------ properties ----------------------------- *)

\* the refresh messages a decode's handlers posted
RefreshMessagesOf(d) ==
  {k \in DOMAIN posted : posted[k].decode = d /\ posted[k].msg.command = "refresh"}
\* the final messages: those the end handlers posted
FinalMessages == {k \in DOMAIN posted : posted[k].handler = "end"}
\* the spreadsheet decoders run on a workbook
IsSpreadsheet ==
  /\ source.kind = "workbook"
  /\ DecoderOf(_fileExtension) \in {"binaryExcel", "textExcel"}
\* String.prototype.toLowerCase on the letters of the documents' names
ToLowerCase(s) ==
  [i \in 1..Len(s) |->
     CASE s[i] = "C" -> "c" [] s[i] = "S" -> "s" [] s[i] = "V" -> "v"
       [] OTHER -> s[i]]
\* the decoders that yield data (spec section 4.1)
DataDecoders == {"text", "binaryExcel", "textExcel", "arrow", "avro"}

C2_SchemaOnlyPublishOnMetadata ==
  \A d \in DOMAIN decodes :
    decodes[d].phase # "open" =>
      \E k \in RefreshMessagesOf(d) \ FinalMessages :
        /\ posted[k].msg.schema = decodes[d].dataSchema
        /\ DataLength(posted[k].msg.data) = 0

\* C3: the final message of an Avro decode carries the schema its metadata
\* event captured, together with the flattened rows.
C3_FinalMessageCarriesSchema ==
  \A k \in FinalMessages :
    /\ posted[k].msg.schema = decodes[posted[k].decode].schema
    /\ posted[k].msg.data = DataArray(FlattenRows(source.rows))

\* C4: a refresh of an existing file whose extension, in lower case, is
\* one of the supported ones runs the decoder of that lower-case extension
\* and yields data, whatever the letter case of the extension.
C4_ExtensionCaseInsensitive ==
  ( /\ lastCall.op = "refresh"
    /\ source.kind # "none"
    /\ DecoderOf(ToLowerCase(_fileExtension)) \in DataDecoders )
  => /\ lastCall.decoder = DecoderOf(ToLowerCase(_fileExtension))
     /\ lastCall.data.tag # "null"

\* C5: a refresh of an existing file with an unrecognized extension returns
\* no data, posts no 'refresh' message and ends without an exception.
C5_UnsupportedFormatNoCrash ==
  ( /\ lastCall.op = "refresh"
    /\ source.kind # "none"
    /\ DecoderOf(_fileExtension) = "none" )
  => /\ lastCall.data.tag = "null"
     /\ \A k \in DOMAIN posted : posted[k].msg.command # "refresh"
     /\ ~lastCall.threw

\* C6: a refresh of a file that does not exist shows an error message,
\* posts no 'refresh' message and ends without an exception.
C6_FileNotFoundNoCrash ==
  ( /\ lastCall.op = "refresh"
    /\ source.kind = "none" )
  => /\ \E i \in DOMAIN shown : shown[i] = "doesn't exist"
     /\ \A k \in DOMAIN posted : posted[k].msg.command # "refresh"
     /\ ~lastCall.threw

\* C7: loading a config file whose dataFileName is not the document's file
\* name shows the mismatch error, changes neither the view config nor the
\* selected table, and refreshes nothing.
C7_ConfigMismatchRejected ==
  [][ ( /\ nOps' = nOps + 1
        /\ lastCall'.op = "loadConfig"
        /\ lastCall'.picked
        /\ lastCall'.dataFileName # _fileName )
      => /\ shown' = Append(shown, "doesn't match")
         /\ _config' = _config
         /\ _dataTable' = _dataTable
         /\ ~lastCall'.refreshed
         /\ posted' = posted ]_vars

\* C8 as stated: a companion file that is on disk with content when a
\* companion write is attempted is never rewritten, whoever writes: no
\* handler of the preview or of the provider starts a write to a path at
\* which a file exists.
C8_CompanionNeverRewritten ==
  [][ \A i \in DOMAIN pendingWrites' :
        i > Len(pendingWrites) => pendingWrites'[i].path \notin DOMAIN files ]_vars

\* C8 amended: the companion writes of the preview (createJsonFile for
\* spreadsheet, columnar and Avro rows and schema) never start a write to a
\* path at which a file exists; the provider's fs.writeFile calls are not
\* covered, they replace an existing file.
C8_CreateJsonFileNeverRewrites ==
  [][ \A i \in DOMAIN pendingWrites' :
        (i > Len(pendingWrites) /\ pendingWrites'[i].api = "createWriteStream")
        => pendingWrites'[i].path \notin DOMAIN files ]_vars
\* a decode has run on a document whose .json companion was on disk: only
\* the schema file is being written, the stale .json file is as it was
C8_Witness ==
  /\ lastCall.op = "refresh"
  /\ lastCall.decoder = "arrow"
  /\ JsonPathOf(_uri) \in DOMAIN files
  /\ files[JsonPathOf(_uri)] = StaleContent
  /\ \E i \in DOMAIN pendingWrites :
       pendingWrites[i].path = Replace(_uri, _fileExtension, SchemaJsonSuffix)
  /\ \A i \in DOMAIN pendingWrites : pendingWrites[i].path # JsonPathOf(_uri)

\* C9: a decode of a workbook with more than one sheet and no table
\* requested (this._dataTable is empty) returns the rows of the first sheet
\* and sets the table list to all sheet names in file order; the message
\* that publishes the rows carries both.
C9_FirstSheetAndAllSheetNames ==
  ( /\ lastCall.refreshed
    /\ IsSpreadsheet
    /\ Len(source.SheetNames) > 1
    /\ _dataTable = "" )
  => /\ lastCall.sheet = source.SheetNames[1]
     /\ lastCall.data = DataArray(source.Sheets[1])
     /\ _tableList = source.SheetNames
     /\ ~lastCall.threw
     /\ source.Sheets[1] # <<>> =>
          /\ posted # <<>>
          /\ posted[Len(posted)].msg.command = "refresh"
          /\ posted[Len(posted)].msg.data = DataArray(source.Sheets[1])
          /\ posted[Len(posted)].msg.tableList = source.SheetNames
          /\ posted[Len(posted)].msg.table = ""
\* a refresh of a two-sheet workbook with no table requested has published
\* the rows of its first sheet
C9_Witness ==
  /\ lastCall.op = "refresh"
  /\ IsSpreadsheet
  /\ Len(source.SheetNames) > 1
  /\ _dataTable = ""
  /\ source.Sheets[1] # <<>>
  /\ posted # <<>>
  /\ posted[Len(posted)].msg.tableList = <<"P", "Q">>
  /\ posted[Len(posted)].msg.data = DataArray(source.Sheets[1])

\* C10 as stated: every refresh of a workbook decodes the sheet its own
\* argument names, the first sheet for an empty argument.
C10_SheetByOwnArgument ==
  ( /\ lastCall.op = "refresh"
    /\ IsSpreadsheet )
  => lastCall.sheet =
       (IF lastCall.table # "" THEN lastCall.table ELSE source.SheetNames[1])

\* C10 amended: a refresh with a non-empty table name decodes that sheet; a
\* refresh with an empty table name decodes the sheet this._dataTable names
\* (the table saved by the last refresh with a table name or by the last
\* loaded config), and the first sheet only when no table is saved.
C10_SheetByArgumentOrSavedTable ==
  [][ ( /\ nOps' = nOps + 1
        /\ lastCall'.op = "refresh"
        /\ IsSpreadsheet )
      => /\ lastCall'.sheet =
              (IF lastCall'.table # "" THEN lastCall'.table
               ELSE IF _dataTable # "" THEN _dataTable
               ELSE source.SheetNames[1])
         /\ lastCall'.data = DataArray(SheetToJson(source, lastCall'.sheet))
         /\ _dataTable' = (IF lastCall'.table # "" THEN lastCall'.table
                           ELSE _dataTable) ]_vars
\* a refresh without a table name has decoded the sheet an earlier request
\* saved, not the first one
C10_Witness ==
  /\ lastCall.op = "refresh"
  /\ IsSpreadsheet
  /\ lastCall.table = ""
  /\ lastCall.sheet = "Q"
  /\ source.SheetNames[1] = "P"
  /\ lastCall.data = DataArray(SheetToJson(source, "Q"))
  /\ nOps >= 2


\* the scalar and null leaves of a record, every level, in depth-first order
RECURSIVE LeafEntries(_)
LeafEntries(entries) ==
  IF entries = <<>> THEN <<>>
  ELSE (IF Head(entries).value.tag = "object"
        THEN LeafEntries(Head(entries).value.ent)
        ELSE <<Head(entries)>>)
       \o LeafEntries(Tail(entries))
\* flat has exactly the names of leaves as its keys, each once, each with
\* the value of the last leaf of that name, and no object as a value
IsFlatOf(flat, leaves) ==
  /\ \A i \in DOMAIN flat : flat[i].value.tag # "object"
  /\ {flat[i].key : i \in DOMAIN flat} = {leaves[j].key : j \in DOMAIN leaves}
  /\ \A i, j \in DOMAIN flat : flat[i].key = flat[j].key => i = j
  /\ \A i \in DOMAIN flat : \E j \in DOMAIN leaves :
       /\ leaves[j] = flat[i]
       /\ \A m \in DOMAIN leaves : leaves[m].key = flat[i].key => m <= j

\* C11: flattenObject of a record with nested records returns an object whose
\* keys are exactly the names of the scalar (or null) leaves of every level;
\* where a name occurs more than once the value kept is that of the leaf met
\* last in depth-first field order, so a nested leaf overwrites an earlier
\* field of the same name; no object remains as a value.
C11_FlattenKeepsLastLeaves ==
  \A d \in DOMAIN decodes :
    decodes[d].phase = "ended" =>
      /\ Len(decodes[d].dataRows) = Len(source.rows)
      /\ \A i \in DOMAIN decodes[d].dataRows :
           /\ decodes[d].dataRows[i] = flattenObject(source.rows[i])
           /\ IsFlatOf(decodes[d].dataRows[i].ent, LeafEntries(source.rows[i].ent))
\* a row whose nested record has a leaf named as an earlier field of the row
\* has been flattened, and the nested value replaced the earlier one
C11_Witness ==
  /\ decodes # <<>>
  /\ decodes[1].phase = "ended"
  /\ source.rows = <<Obj(<<Entry("a", Scalar(1)),
                      Entry("b", Obj(<<Entry("a", Scalar(2)),
                                       Entry("b", Scalar(3))>>))>>)>>
  /\ decodes[1].dataRows = <<Obj(<<Entry("a", Scalar(2)), Entry("b", Scalar(3))>>)>>


\* the writes a step starts, and the messages it posts
StartedWrites == {i \in DOMAIN pendingWrites' : i > Len(pendingWrites)}
PostedNow == {k \in DOMAIN posted' : k > Len(posted)}
\* the end handler of decode d runs in this step
EndsNow(d) == decodes[d].phase = "decoding" /\ decodes'[d].phase = "ended"

EndHandlerRuns(d) ==
  decodes[d].phase = "decoding" /\ decodes'[d].phase \in {"ended", "aborted"}
\* a companion write of this step failed: no file was at the path and no
\* write to it has been started
WriteFailedAt(path) ==
  /\ path \notin DOMAIN files
  /\ \A i \in StartedWrites : pendingWrites'[i].path # path

\* C13: whenever a companion write fails in the end handler of an Avro
\* decode (JSON.stringify or the write stream raising inside createJsonFile),
\* the failure is logged and shown, and the handler still publishes what it
\* publishes when every write succeeds.
C13_WriteFailureIsNonFatal ==
  [][ \A d \in DOMAIN decodes :
        ( /\ EndHandlerRuns(d)
          /\ \/ WriteFailedAt(Replace(_uri, _fileExtension, JsonSuffix))
             \/ WriteFailedAt(Replace(_uri, _fileExtension, SchemaJsonSuffix)) )
        => /\ Len(logged') > Len(logged)
           /\ logged'[Len(logged')] = FailedToSave
           /\ Len(shown') > Len(shown)
           /\ shown'[Len(shown')] = FailedToSave
           /\ posted' = posted \o Stamp(onEnd(World, d).outbox, "end", d) ]_vars


\* a provideTextDocumentContent call of this step finds its path in the map
\* (every uri of ProviderUris derives a path the map holds)
CacheHitNow ==
  /\ nProvides' = nProvides + 1
  /\ \A uri \in ProviderUris : StripJsonSuffix(uri.path) \in DOMAIN jsonFileDataMap

\* C14: a provideTextDocumentContent call for a uri whose derived path is in
\* the map resolves with the cached content, starts no new decode stream
\* and leaves the map entry as it is.
C14_CacheHitStartsNoDecode ==
  [][ CacheHitNow =>
        /\ jsonFileDataMap' = jsonFileDataMap
        /\ \A c \in DOMAIN provides' :
             c > Len(provides) =>
               /\ provides'[c].phase # "open"
               /\ provides'[c].resolved.done
               /\ provides'[c].resolved.value =
                    provides[jsonFileDataMap[provides'[c].jsonFilePath]].data ]_vars


\* the decodes whose end handler has run
EndedDecodes == {d \in DOMAIN decodes : decodes[d].phase = "ended"}

=============================================================================
